---- MODULE Spec2Model ----
(***************************************************************************)
(* rename2date: prefix file names with their modification time.           *)
(* A model of src/rename2date.py: the path and string functions the       *)
(* program calls, its pure helpers, the directory enumeration, and the    *)
(* preview and rename handlers of the form, run against a small file      *)
(* system.                                                                 *)
(*                                                                         *)
(* A string is a sequence of one-character strings, so that splitting,    *)
(* prefix tests, case folding and number formatting are computed.         *)
(***************************************************************************)
EXTENDS Integers, Sequences, FiniteSets, Bags, TLC

VARIABLES
    fs,                          \* the file system: path -> entry
    platform,                    \* "posix" or "nt": decides os.rename onto an existing path
    clock,                       \* datetime.now().timestamp()
    dir_var, ext_var, pattern_var, recursive_var, skip_already_prefixed_var,  \* the form
    mode,                        \* which handler runs: "preview" or "execute"
    pc,                          \* the handler's position
    conf,                        \* what _validate_inputs returned
    it,                          \* the state of the iter_files generator
    cur,                         \* the loop variable `path`
    target,                      \* the local `target` of _on_rename
    count, skipped, errors,      \* the counters of _on_rename
    preview_count,               \* the counter of _on_preview
    log,                         \* the log pane, a bag of lines
    run,                         \* history: how many times a handler was started
    fs0,                         \* history: the file system when the current run started
    moved,                       \* history: inode -> number of renames in the current run
    last,                        \* history: what the previous run reported and left behind
    lost,                        \* history: inodes an os.rename replaced
    noops,                       \* history: candidates skipped as renamed onto themselves
    resolved,                    \* history: the bag of target paths resolved in the current run
    cands,                       \* history: the paths the current run took as candidates
    extern                       \* history: how many times another process acted

vars == <<fs, platform, clock, dir_var, ext_var, pattern_var, recursive_var,
          skip_already_prefixed_var, mode, pc, conf, it, cur, target, count,
          skipped, errors, preview_count, log, run, fs0, moved, last, lost, noops,
          resolved, cands, extern>>

-----------------------------------------------------------------------------
(* str methods *)

\* str.lower on the letters the model's names use
LowerOf(c) ==
    CASE c = "J" -> "j"
      [] c = "P" -> "p"
      [] c = "G" -> "g"
      [] c = "E" -> "e"
      [] c = "N" -> "n"
      [] OTHER -> c

Lower(s) == [i \in 1..Len(s) |-> LowerOf(s[i])]

RECURSIVE LStrip(_)
LStrip(s) == IF s # <<>> /\ Head(s) = " " THEN LStrip(Tail(s)) ELSE s

RECURSIVE RStrip(_)
RStrip(s) == IF s # <<>> /\ s[Len(s)] = " " THEN RStrip(SubSeq(s, 1, Len(s) - 1)) ELSE s

\* str.strip
Strip(s) == RStrip(LStrip(s))

\* str.startswith
StartsWith(s, p) == Len(p) <= Len(s) /\ SubSeq(s, 1, Len(p)) = p

RECURSIVE RFindFrom(_, _, _)
RFindFrom(s, c, i) ==
    IF i = 0 THEN 0 ELSE IF s[i] = c THEN i ELSE RFindFrom(s, c, i - 1)

\* str.rfind, 1-based: 0 when c does not occur
RFind(s, c) == RFindFrom(s, c, Len(s))

Digit(d) == <<"0", "1", "2", "3", "4", "5", "6", "7", "8", "9">>[d + 1]

\* str(i) of a non-negative integer, as the f-string of ensure_unique_path formats it
RECURSIVE IntToStr(_)
IntToStr(n) == IF n < 10 THEN <<Digit(n)>> ELSE IntToStr(n \div 10) \o <<Digit(n % 10)>>

Pad2(n) == <<Digit((n \div 10) % 10), Digit(n % 10)>>

Pad4(n) == <<Digit((n \div 1000) % 10), Digit((n \div 100) % 10)>> \o Pad2(n)

-----------------------------------------------------------------------------
(* os.path (posixpath) *)

RECURSIVE RStripSlash(_)
RStripSlash(s) ==
    IF s # <<>> /\ s[Len(s)] = "/" THEN RStripSlash(SubSeq(s, 1, Len(s) - 1)) ELSE s

\* os.path.split: <<head, tail>>
PathSplit(p) ==
    LET i == RFind(p, "/")
        head == SubSeq(p, 1, i)
        tail == SubSeq(p, i + 1, Len(p))
    IN  <<IF \E k \in 1..Len(head) : head[k] # "/" THEN RStripSlash(head) ELSE head, tail>>

\* os.path.basename
Basename(p) == SubSeq(p, RFind(p, "/") + 1, Len(p))

\* os.path.join of two parts
PathJoin(a, b) ==
    IF b # <<>> /\ b[1] = "/" THEN b
    ELSE IF a = <<>> \/ a[Len(a)] = "/" THEN a \o b
    ELSE a \o <<"/">> \o b

\* os.path.splitext: <<root, ext>>; leading dots of the last component are no extension
SplitExt(p) ==
    LET sep == RFind(p, "/")
        dot == RFind(p, ".")
    IN  IF dot > sep /\ (\E k \in (sep + 1)..(dot - 1) : p[k] # ".")
        THEN <<SubSeq(p, 1, dot - 1), SubSeq(p, dot, Len(p))>>
        ELSE <<p, <<>>>>

\* str.split("/")
RECURSIVE Components(_)
Components(p) ==
    LET i == RFind(p, "/")
    IN  IF i = 0 THEN <<p>>
        ELSE Append(Components(SubSeq(p, 1, i - 1)), SubSeq(p, i + 1, Len(p)))

\* The loop of normpath over the components: drops "" and ".", resolves ".."
RECURSIVE NormComps(_, _, _)
NormComps(comps, acc, rooted) ==
    IF comps = <<>> THEN acc
    ELSE LET c == Head(comps)
             keep == \/ c # <<".", ".">>
                     \/ (~rooted /\ acc = <<>>)
                     \/ (acc # <<>> /\ acc[Len(acc)] = <<".", ".">>)
         IN  IF c = <<>> \/ c = <<".">> THEN NormComps(Tail(comps), acc, rooted)
             ELSE IF keep THEN NormComps(Tail(comps), Append(acc, c), rooted)
             ELSE IF acc # <<>> THEN NormComps(Tail(comps), SubSeq(acc, 1, Len(acc) - 1), rooted)
             ELSE NormComps(Tail(comps), acc, rooted)

RECURSIVE JoinComps(_)
JoinComps(cs) ==
    IF cs = <<>> THEN <<>>
    ELSE IF Len(cs) = 1 THEN cs[1]
    ELSE cs[1] \o <<"/">> \o JoinComps(Tail(cs))

\* os.path.normpath
NormPath(p) ==
    IF p = <<>> THEN <<".">>
    ELSE LET rooted == p[1] = "/"
             slashes == IF ~rooted THEN <<>>
                        ELSE IF StartsWith(p, <<"/", "/">>) /\ ~StartsWith(p, <<"/", "/", "/">>)
                             THEN <<"/", "/">> ELSE <<"/">>
             body == slashes \o JoinComps(NormComps(Components(p), <<>>, rooted))
         IN  IF body = <<>> THEN <<".">> ELSE body

\* os.getcwd()
Cwd == <<"/", "w">>

\* os.path.abspath
AbsPath(p) == NormPath(IF p # <<>> /\ p[1] = "/" THEN p ELSE PathJoin(Cwd, p))

-----------------------------------------------------------------------------
(* datetime *)

\* datetime.fromtimestamp, in UTC, for instants in January 1970
FromTimestamp(ts) ==
    [Y |-> 1970, m |-> 1, d |-> 1 + (ts \div 86400),
     H |-> (ts \div 3600) % 24, M |-> (ts \div 60) % 60, S |-> ts % 60]

\* One strftime directive
Directive(dt, c) ==
    CASE c = "Y" -> Pad4(dt.Y)
      [] c = "m" -> Pad2(dt.m)
      [] c = "d" -> Pad2(dt.d)
      [] c = "H" -> Pad2(dt.H)
      [] c = "M" -> Pad2(dt.M)
      [] c = "S" -> Pad2(dt.S)
      [] c = "%" -> <<"%">>
      [] OTHER -> <<"%", c>>

\* datetime.strftime
RECURSIVE Strftime(_, _)
Strftime(dt, pat) ==
    IF pat = <<>> THEN <<>>
    ELSE IF Head(pat) = "%" /\ Len(pat) >= 2
         THEN Directive(dt, pat[2]) \o Strftime(dt, SubSeq(pat, 3, Len(pat)))
         ELSE <<Head(pat)>> \o Strftime(dt, Tail(pat))

DEFAULT_PATTERN ==
    <<"%", "Y", "-", "%", "m", "-", "%", "d", "-", "%", "H", "-", "%", "M", "-", "%", "S">>

-----------------------------------------------------------------------------
(* The file system.  fs maps a normalised path to an entry                 *)
(*   [kind, mtime, ino, r, w]: kind is "file", "dir" or "link" (a symbolic *)
(*   link whose target is missing); r and w are a directory's read and     *)
(*   write permission; ino names the file whatever its path.               *)

\* The path the kernel looks up
Key(p) == NormPath(p)

\* os.path.exists: follows links, so a broken link does not exist
Exists(F, p) == LET k == Key(p) IN k \in DOMAIN F /\ F[k].kind # "link"

\* os.path.isfile
IsFile(F, p) == LET k == Key(p) IN k \in DOMAIN F /\ F[k].kind = "file"

\* os.path.isdir
IsDir(F, p) == LET k == Key(p) IN k \in DOMAIN F /\ F[k].kind = "dir"

\* The entries of directory d
Children(F, d) == {p \in DOMAIN F : p # d /\ PathSplit(p)[1] = d}

\* os.rename(src, dst): [ok, fs, replaced].  It fails when src is missing, when
\* the directory of dst is missing, when either directory is not writable, when
\* dst is a directory, and on Windows when dst exists at all; on POSIX it
\* replaces a dst that is not a directory.
OsRename(F, plat, src, dst) ==
    LET s == Key(src)
        d == Key(dst)
        sdir == PathSplit(s)[1]
        ddir == PathSplit(d)[1]
        fails == \/ s \notin DOMAIN F
                 \/ ddir \notin DOMAIN F \/ F[ddir].kind # "dir"
                 \/ sdir \notin DOMAIN F \/ F[sdir].kind # "dir"
                 \/ ~F[sdir].w
                 \/ ~F[ddir].w
                 \/ (d \in DOMAIN F /\ d # s /\ F[d].kind = "dir")
                 \/ (d \in DOMAIN F /\ d # s /\ plat = "nt")
    IN  IF fails THEN [ok |-> FALSE, fs |-> F, replaced |-> {}]
        ELSE [ok |-> TRUE,
              fs |-> [p \in (DOMAIN F \ {s}) \cup {d} |-> IF p = d THEN F[s] ELSE F[p]],
              replaced |-> IF d \in DOMAIN F /\ d # s THEN {F[d].ino} ELSE {}]

-----------------------------------------------------------------------------
(* The functions of rename2date.py *)

normalize_ext(ext) ==
    LET e == Strip(ext)
    IN  IF e = <<>> THEN <<>>
        ELSE Lower(IF ~StartsWith(e, <<".">>) THEN <<".">> \o e ELSE e)

build_prefixed_name(path, prefix) ==
    LET sp == PathSplit(path)
    IN  PathJoin(sp[1], prefix \o <<"_">> \o sp[2])

\* The while loop of ensure_unique_path from counter i on
RECURSIVE probe(_, _, _, _, _)
probe(F, directory, stem, ext, i) ==
    LET candidate == PathJoin(directory, stem \o <<"-">> \o IntToStr(i) \o ext)
    IN  IF ~Exists(F, candidate) THEN candidate
        ELSE probe(F, directory, stem, ext, i + 1)

\* ensure_unique_path with its counter started at 2 instead of 1
ensure_unique_path_from2(F, target_path) ==
    IF ~Exists(F, target_path) THEN target_path
    ELSE LET sp == PathSplit(target_path)
             se == SplitExt(sp[2])
         IN  probe(F, sp[1], se[1], se[2], 2)

ensure_unique_path(F, target_path) ==
    IF ~Exists(F, target_path) THEN target_path
    ELSE LET sp == PathSplit(target_path)
             se == SplitExt(sp[2])
         IN  probe(F, sp[1], se[1], se[2], 1)

\* getmtime raises OSError for a missing path or a broken link: then now() is used
get_modification_prefix(F, path, pattern, now) ==
    LET k == Key(path)
        ts == IF k \in DOMAIN F /\ F[k].kind # "link" THEN F[k].mtime ELSE now
    IN  Strftime(FromTimestamp(ts), pattern)

\* should_skip_already_prefixed comparing with "<prefix>-" instead of "<prefix>_"
should_skip_dash(filename, prefix) == StartsWith(filename, prefix \o <<"-">>)

should_skip_already_prefixed(filename, prefix) == StartsWith(filename, prefix \o <<"_">>)

\* App._validate_inputs: <<ok, directory, ext, pattern>>; the strftime of the
\* model raises on no pattern, so the check of the pattern always passes
_validate_inputs(F) ==
    LET directory == Strip(dir_var)
        ext == normalize_ext(ext_var)
        pattern == IF Strip(pattern_var) # <<>> THEN Strip(pattern_var) ELSE DEFAULT_PATTERN
    IN  IF directory = <<>> THEN <<FALSE, <<>>, <<>>, "Select a directory.">>
        ELSE IF ~IsDir(F, directory) THEN <<FALSE, <<>>, <<>>, "Directory does not exist">>
        ELSE IF ext = <<>> THEN <<FALSE, <<>>, <<>>, "Enter a file extension">>
        ELSE <<TRUE, directory, ext, pattern>>

\* The test of App._collect_targets without the .lower() of the extension
IsTarget_cased(F, path, ext) == IsFile(F, path) /\ SplitExt(path)[2] = ext

\* The test of App._collect_targets on one path
IsTarget(F, path, ext) == IsFile(F, path) /\ Lower(SplitExt(path)[2]) = ext

-----------------------------------------------------------------------------
(* The handlers.  A run is one click: _on_rename or _on_preview.  pc is    *)
(*   "idle"     no handler has run yet                                      *)
(*   "loop"     at the head of the for loop, about to ask the generator     *)
(*   "body"     the generator yielded cur                                   *)
(*   "rename"   target is resolved, os.rename is next                       *)
(*   "done"     the handler returned after its last log line                *)
(*   "rejected" the handler returned after the validation message           *)
(*   "crashed"  an exception left the handler                               *)

PREVIEW_CAP == 10

\* Bounds of the model
MaxRuns == 2

MaxFiles == 3

MaxLate == 1

MaxExtern == 1

MaxPreviewFiles == 11

MaxTwiceFiles == 2

Line(kind, a, b, n) == [kind |-> kind, a |-> a, b |-> b, n |-> n]

Say(kind, a, b, n) == log (+) SetToBag({Line(kind, a, b, n)})

NoIter == [kind |-> "none", todo |-> {}, seen |-> {}, stack |-> <<>>, late |-> 0]

\* The paths a listing of directory `root` gives: os.path.join(root, name)
Listing(F, root, kinds) ==
    LET d == Key(root)
    IN  {PathJoin(root, Basename(k)) : k \in {c \in Children(F, d) : F[c].kind \in kinds}}

\* os.scandir and the scandir inside os.walk raise OSError on these
CannotList(F, root) == LET k == Key(root) IN k \notin DOMAIN F \/ F[k].kind # "dir" \/ ~F[k].r

\* The lines 163-170 and 190-199 the two handlers share: validation, then the
\* counters and the generator object (nothing is listed before the first next())
Begin(m, header) ==
    LET v == _validate_inputs(fs)
    IN  /\ run' = run + 1
        /\ mode' = m
        /\ last' = [valid |-> pc = "done", count |-> count, skipped |-> skipped,
                    errors |-> errors]
        /\ fs0' = fs
        /\ moved' = [i \in {} |-> 0]
        /\ resolved' = EmptyBag
        /\ cands' = {}
        /\ noops' = 0
        /\ count' = 0 /\ skipped' = 0 /\ errors' = 0 /\ preview_count' = 0
        /\ cur' = <<>> /\ target' = <<>>
        /\ IF v[1]
           THEN /\ conf' = [directory |-> v[2], ext |-> v[3], pattern |-> v[4]]
                /\ it' = [NoIter EXCEPT !.kind = "new"]
                /\ log' = SetToBag({Line(header, v[2], v[3], <<0, 0, 0>>)})
                /\ pc' = "loop"
           ELSE /\ conf' = [directory |-> <<>>, ext |-> <<>>, pattern |-> <<>>]
                /\ it' = NoIter
                /\ log' = SetToBag({Line("invalid", <<>>, <<>>, <<0, 0, 0>>)})
                /\ pc' = "rejected"
        /\ UNCHANGED <<fs, platform, clock, dir_var, ext_var, pattern_var, recursive_var,
                       skip_already_prefixed_var, lost, extern>>

\* The first click on Rename Files
OnRename == pc = "idle" /\ Begin("execute", "Starting")

\* The first click on Preview First 10
OnPreview == pc = "idle" /\ Begin("preview", "Preview")

\* Rename Files clicked again once the handler has returned
OnRenameAgain ==
    pc \in {"done", "rejected", "crashed"} /\ run < MaxRuns /\ Begin("execute", "Starting")

\* The line a handler ends with once its loop is over (lines 186-187, 217)
Finish ==
    /\ pc' = "done"
    /\ log' = IF mode = "execute"
              THEN Say("Done", <<>>, <<>>, <<count, skipped, errors>>)
              ELSE IF preview_count = 0
                   THEN Say("NoMatch", <<>>, <<>>, <<0, 0, 0>>)
                   ELSE log

\* What the loop does with one path the directory stream gave: iter_files keeps
\* it (scandir: entry.is_file(); walk: every non-directory), _collect_targets
\* keeps it when it is a regular file with the extension
Consider(p) ==
    IF IsFile(fs, p) /\ IsTarget(fs, p, conf.ext)
    THEN cur' = p /\ pc' = "body" /\ cands' = cands \cup {p}
    ELSE cur' = cur /\ pc' = "loop" /\ cands' = cands

\* The first next() of the generator: os.scandir(base_dir), or the listing of
\* the top directory by os.walk, which swallows the OSError scandir lets out
Open ==
    /\ pc = "loop" /\ it.kind = "new"
    /\ IF recursive_var
       THEN /\ it' = IF CannotList(fs, conf.directory)
                     THEN [NoIter EXCEPT !.kind = "walk"]
                     ELSE [kind |-> "walk",
                           todo |-> Listing(fs, conf.directory, {"file", "link"}),
                           seen |-> {},
                           stack |-> <<Listing(fs, conf.directory, {"dir"})>>,
                           late |-> 0]
            /\ pc' = "loop"
            /\ log' = log
       ELSE IF CannotList(fs, conf.directory)
            THEN /\ it' = [NoIter EXCEPT !.kind = "closed"]
                 /\ pc' = "crashed"
                 /\ log' = log
            ELSE /\ it' = [kind |-> "scandir",
                           todo |-> Listing(fs, conf.directory, {"file", "link", "dir"}),
                           seen |-> {},
                           stack |-> <<>>,
                           late |-> 0]
                 /\ pc' = "loop"
                 /\ log' = log
    /\ UNCHANGED <<fs, platform, clock, dir_var, ext_var, pattern_var, recursive_var,
                   skip_already_prefixed_var, mode, conf, cur, target, count, skipped,
                   errors, preview_count, run, fs0, moved, last, cands, lost, noops, resolved,
                   extern>>

\* The stream returns an entry that was in the directory when it was listed
Entry ==
    /\ pc = "loop" /\ it.kind \in {"scandir", "walk"}
    /\ \E p \in it.todo :
         /\ it' = [it EXCEPT !.todo = @ \ {p}, !.seen = @ \cup {p}]
         /\ Consider(p)
    /\ UNCHANGED <<fs, platform, clock, dir_var, ext_var, pattern_var, recursive_var,
                   skip_already_prefixed_var, mode, conf, target, count, skipped, errors,
                   preview_count, log, run, fs0, moved, last, lost, noops, resolved,
                   extern>>

\* os.scandir is a live directory stream: whether it returns an entry added to
\* the directory after it was opened is unspecified, so it may
LateEntry ==
    /\ pc = "loop" /\ it.kind = "scandir"
    /\ it.late < MaxLate
    /\ \E p \in Listing(fs, conf.directory, {"file", "link", "dir"}) \ (it.todo \cup it.seen) :
         /\ it' = [it EXCEPT !.seen = @ \cup {p}, !.late = @ + 1]
         /\ Consider(p)
    /\ UNCHANGED <<fs, platform, clock, dir_var, ext_var, pattern_var, recursive_var,
                   skip_already_prefixed_var, mode, conf, target, count, skipped, errors,
                   preview_count, log, run, fs0, moved, last, lost, noops, resolved,
                   extern>>

\* os.walk, the files of a directory exhausted, goes on to the next directory of
\* its listing: it lists that directory whole (an OSError there skips it)
Descend ==
    /\ pc = "loop" /\ it.kind = "walk" /\ it.todo = {} /\ it.stack # <<>>
    /\ LET top == it.stack[Len(it.stack)]
           rest == SubSeq(it.stack, 1, Len(it.stack) - 1)
       IN  IF top = {}
           THEN it' = [it EXCEPT !.stack = rest]
           ELSE \E d \in top :
                  it' = IF CannotList(fs, d)
                        THEN [it EXCEPT !.stack = Append(rest, top \ {d})]
                        ELSE [it EXCEPT
                                !.todo = Listing(fs, d, {"file", "link"}),
                                !.stack = Append(Append(rest, top \ {d}),
                                                 Listing(fs, d, {"dir"}))]
    /\ UNCHANGED <<fs, platform, clock, dir_var, ext_var, pattern_var, recursive_var,
                   skip_already_prefixed_var, mode, pc, conf, cur, target, count, skipped,
                   errors, preview_count, log, run, fs0, moved, last, cands, lost, noops,
                   resolved, extern>>

\* StopIteration: the loop is over and the handler logs its last line
Exhausted ==
    /\ pc = "loop" /\ it.kind \in {"scandir", "walk"}
    /\ it.todo = {} /\ it.stack = <<>>
    /\ it' = [it EXCEPT !.kind = "closed"]
    /\ Finish
    /\ UNCHANGED <<fs, platform, clock, dir_var, ext_var, pattern_var, recursive_var,
                   skip_already_prefixed_var, mode, conf, cur, target, count, skipped,
                   errors, preview_count, run, fs0, moved, last, cands, lost, noops, resolved,
                   extern>>

\* Lines 202-210 of _on_rename: the prefix, the skip test, the target
Body ==
    /\ pc = "body" /\ mode = "execute"
    /\ LET filename == PathSplit(cur)[2]
           prefix == get_modification_prefix(fs, cur, conf.pattern, clock)
           t == ensure_unique_path(fs, build_prefixed_name(cur, prefix))
       IN  IF skip_already_prefixed_var /\ should_skip_already_prefixed(filename, prefix)
           THEN /\ skipped' = skipped + 1
                /\ pc' = "loop"
                /\ UNCHANGED <<target, noops, resolved>>
           ELSE IF AbsPath(cur) = AbsPath(t)
           THEN /\ skipped' = skipped + 1
                /\ noops' = noops + 1
                /\ pc' = "loop"
                /\ target' = t
                /\ resolved' = resolved (+) SetToBag({t})
           ELSE /\ target' = t
                /\ pc' = "rename"
                /\ resolved' = resolved (+) SetToBag({t})
                /\ UNCHANGED <<skipped, noops>>
    /\ UNCHANGED <<fs, platform, clock, dir_var, ext_var, pattern_var, recursive_var,
                   skip_already_prefixed_var, mode, conf, it, cur, count, errors,
                   preview_count, log, run, fs0, moved, last, cands, lost, extern>>

\* Lines 211-216 of _on_rename: os.rename, then RENAMED or ERROR
Rename ==
    /\ pc = "rename"
    /\ LET r == OsRename(fs, platform, cur, target)
           ino == fs[Key(cur)].ino
       IN  IF r.ok
           THEN /\ fs' = r.fs
                /\ log' = Say("RENAMED", PathSplit(cur)[2], Basename(target), <<0, 0, 0>>)
                /\ count' = count + 1
                /\ moved' = [i \in DOMAIN moved \cup {ino} |->
                               IF i = ino
                               THEN (IF i \in DOMAIN moved THEN moved[i] ELSE 0) + 1
                               ELSE moved[i]]
                /\ lost' = lost \cup r.replaced
                /\ UNCHANGED errors
           ELSE /\ log' = Say("ERROR", cur, <<>>, <<0, 0, 0>>)
                /\ errors' = errors + 1
                /\ UNCHANGED <<fs, count, moved, lost>>
    /\ pc' = "loop"
    /\ UNCHANGED <<platform, clock, dir_var, ext_var, pattern_var, recursive_var,
                   skip_already_prefixed_var, mode, conf, it, cur, target, skipped,
                   preview_count, run, fs0, last, cands, noops, resolved, extern>>

\* Lines 172-187 of _on_preview: one line per candidate, the break at the cap
PreviewBody ==
    /\ pc = "body" /\ mode = "preview"
    /\ LET filename == PathSplit(cur)[2]
           prefix == get_modification_prefix(fs, cur, conf.pattern, clock)
           new_path == build_prefixed_name(cur, prefix)
           unique_path == ensure_unique_path(fs, new_path)
           note == IF unique_path # new_path THEN "PreviewCollision" ELSE "PreviewLine"
       IN  IF skip_already_prefixed_var /\ should_skip_already_prefixed(filename, prefix)
           THEN /\ pc' = "loop"
                /\ UNCHANGED <<it, log, preview_count, resolved>>
           ELSE /\ resolved' = resolved (+) SetToBag({unique_path})
                /\ preview_count' = preview_count + 1
                /\ IF preview_count + 1 >= PREVIEW_CAP
                   THEN /\ it' = [it EXCEPT !.kind = "closed"]
                        /\ pc' = "done"
                        /\ log' = Say(note, filename, Basename(unique_path), <<0, 0, 0>>)
                   ELSE /\ it' = it
                        /\ pc' = "loop"
                        /\ log' = Say(note, filename, Basename(unique_path), <<0, 0, 0>>)
    /\ UNCHANGED <<fs, platform, clock, dir_var, ext_var, pattern_var, recursive_var,
                   skip_already_prefixed_var, mode, conf, cur, target, count, skipped,
                   errors, run, fs0, moved, last, cands, lost, noops, extern>>

-----------------------------------------------------------------------------
(* Other processes, between two steps of a run *)

\* Another process creates a file where the run is about to put one
ExternalCreate ==
    /\ pc \in {"body", "rename"} /\ extern < MaxExtern
    /\ LET p == IF pc = "rename" THEN target
                ELSE build_prefixed_name(cur,
                         get_modification_prefix(fs, cur, conf.pattern, clock))
           k == Key(p)
       IN  /\ k \notin DOMAIN fs
           /\ IsDir(fs, PathSplit(k)[1])
           /\ fs' = [q \in DOMAIN fs \cup {k} |->
                       IF q = k
                       THEN [kind |-> "file", mtime |-> clock, ino |-> 100 + extern,
                             r |-> TRUE, w |-> TRUE]
                       ELSE fs[q]]
    /\ extern' = extern + 1
    /\ UNCHANGED <<platform, clock, dir_var, ext_var, pattern_var, recursive_var,
                   skip_already_prefixed_var, mode, pc, conf, it, cur, target, count,
                   skipped, errors, preview_count, log, run, fs0, moved, last, cands, lost,
                   noops, resolved>>

\* Another process removes the file the run is working on
ExternalDelete ==
    /\ pc \in {"body", "rename"} /\ extern < MaxExtern
    /\ Key(cur) \in DOMAIN fs
    /\ fs' = [q \in DOMAIN fs \ {Key(cur)} |-> fs[q]]
    /\ extern' = extern + 1
    /\ UNCHANGED <<platform, clock, dir_var, ext_var, pattern_var, recursive_var,
                   skip_already_prefixed_var, mode, pc, conf, it, cur, target, count,
                   skipped, errors, preview_count, log, run, fs0, moved, last, cands, lost,
                   noops, resolved>>

-----------------------------------------------------------------------------
(* Initial states: the form as the user filled it, and a small tree *)

B == <<"b">>

Sub == <<"b", "/", "0", "1">>

SubSub == <<"b", "/", "0", "1", "/", "0", "1">>

Ent(path, kind, mtime, ino) == [path |-> path, kind |-> kind, mtime |-> mtime, ino |-> ino]

\* The pattern _validate_inputs hands on for a pattern field
Effective(pv) == IF Strip(pv) # <<>> THEN Strip(pv) ELSE DEFAULT_PATTERN

\* The entries a tree is drawn from.  a.jpg, a-1.jpg and g.jpg were modified at
\* 00:01:02, c.JPG at 00:01:03; the sixth and seventh sit where a.jpg is to go,
\* as a file modified at 00:02:02 or as a broken link.
Pool(pat) ==
    LET taken == build_prefixed_name(PathJoin(B, <<"a", ".", "j", "p", "g">>),
                                     Strftime(FromTimestamp(62), pat))
    IN  { Ent(PathJoin(B, <<"a", ".", "j", "p", "g">>), "file", 62, 1),
          Ent(PathJoin(B, <<"a", "-", "1", ".", "j", "p", "g">>), "file", 62, 2),
          Ent(PathJoin(B, <<"c", ".", "J", "P", "G">>), "file", 63, 3),
          Ent(PathJoin(B, <<"d", ".", "p", "n", "g">>), "file", 62, 4),
          Ent(taken, "file", 122, 6),
          Ent(taken, "link", 122, 7),
          Ent(PathJoin(Sub, <<"g", ".", "j", "p", "g">>), "file", 62, 8) }

Tree(S, dirs, r, w) ==
    [p \in {e.path : e \in S} \cup dirs \cup {B} |->
        IF p \in dirs \cup {B}
        THEN [kind |-> "dir", mtime |-> 0, ino |-> 0, r |-> (p # B) \/ r, w |-> (p # B) \/ w]
        ELSE LET e == CHOOSE e \in S : e.path = p
             IN  [kind |-> e.kind, mtime |-> e.mtime, ino |-> e.ino, r |-> TRUE, w |-> TRUE]]

\* Every entry lies in a directory of the tree, and no two share a path
WellFormed(S, dirs) ==
    /\ \A e \in S : PathSplit(e.path)[1] \in dirs \cup {B}
    /\ \A e, f \in S : e.path = f.path => e = f
    /\ \A e \in S : e.path \notin dirs

DirChoices == {{}, {Sub}, {Sub, SubSub}}

Perms == {<<TRUE, TRUE>>, <<TRUE, FALSE>>, <<FALSE, TRUE>>}

\* The trees of up to n entries of the pool, under each choice of directories
\* and permissions
TreesUpTo(pat, n, dirChoices, perms) ==
    {Tree(x[1], x[2], x[3][1], x[3][2]) :
        x \in {y \in (SUBSET Pool(pat)) \X dirChoices \X perms :
                 Cardinality(y[1]) <= n /\ WellFormed(y[1], y[2])}}

Trees(pat) == TreesUpTo(pat, MaxFiles, DirChoices, Perms)

\* n files f1.jpg .. fn.jpg modified at 00:01:02, every third already prefixed
Many(pat, n) ==
    Tree({Ent(PathJoin(B, (IF i % 3 = 0
                           THEN Strftime(FromTimestamp(62), pat) \o <<"_">>
                           ELSE <<>>) \o <<"f">> \o IntToStr(i) \o <<".", "j", "p", "g">>),
              "file", 62, i) : i \in 1..n}, {}, TRUE, TRUE)

Patterns == {<<>>, <<"%", "M">>, <<" ", "%", "M", "/", "%", "S">>}

Extensions == {<<" ", "J", "P", "G", " ">>}

\* Everything but the form, the platform and the tree
Fresh ==
    /\ clock = 185
    /\ mode = "none" /\ pc = "idle"
    /\ conf = [directory |-> <<>>, ext |-> <<>>, pattern |-> <<>>]
    /\ it = NoIter
    /\ cur = <<>> /\ target = <<>>
    /\ count = 0 /\ skipped = 0 /\ errors = 0 /\ preview_count = 0
    /\ log = EmptyBag
    /\ run = 0
    /\ fs0 = fs
    /\ moved = [i \in {} |-> 0]
    /\ last = [valid |-> FALSE, count |-> 0, skipped |-> 0, errors |-> 0]
    /\ lost = {}
    /\ noops = 0
    /\ resolved = EmptyBag
    /\ cands = {}
    /\ extern = 0

\* A form that passes validation, over any small tree
ValidForm ==
    /\ dir_var = B
    /\ ext_var \in Extensions
    /\ pattern_var \in Patterns
    /\ recursive_var \in BOOLEAN
    /\ skip_already_prefixed_var \in BOOLEAN

\* A form that fails it: no directory, a directory that is not there, no extension
InvalidForm ==
    /\ \/ dir_var = <<" ">> /\ ext_var = <<"j", "p", "g">>
       \/ dir_var = <<"z">> /\ ext_var = <<"j", "p", "g">>
       \/ dir_var = B /\ ext_var = <<" ">>
    /\ pattern_var = <<>>
    /\ recursive_var = TRUE
    /\ skip_already_prefixed_var = TRUE

\* Without another process os.rename meets an existing path only where a broken
\* link lies, so only such trees are run on both platforms
Platforms(F) ==
    IF \E p \in DOMAIN F : F[p].kind = "link" THEN {"posix", "nt"} ELSE {"posix"}

Init ==
    /\ \/ ValidForm /\ fs \in Trees(Effective(pattern_var))
       \/ InvalidForm /\ fs = Tree({}, {}, TRUE, TRUE)
    /\ platform \in Platforms(fs)
    /\ Fresh

Next ==
    \/ OnRename
    \/ Open
    \/ Entry
    \/ LateEntry
    \/ Descend
    \/ Exhausted
    \/ Body
    \/ Rename

\* One run of the Rename Files button with no other process at work
Spec == Init /\ [][Next]_vars

NextTwice ==
    \/ OnRename
    \/ OnRenameAgain
    \/ Open
    \/ Entry
    \/ LateEntry
    \/ Descend
    \/ Exhausted
    \/ Body
    \/ Rename

\* The runs the repetition is about: skipping of prefixed files is switched on
InitTwice ==
    /\ ValidForm
    /\ skip_already_prefixed_var = TRUE
    /\ fs \in TreesUpTo(Effective(pattern_var), MaxTwiceFiles, DirChoices, Perms)
    /\ platform \in Platforms(fs)
    /\ Fresh

\* Rename Files clicked up to MaxRuns times in succession
SpecTwice == InitTwice /\ [][NextTwice]_vars

InitPreview ==
    /\ platform = "posix"
    /\ \/ ValidForm /\ fs \in Trees(Effective(pattern_var))
       \/ /\ ValidForm
          /\ pattern_var = <<"%", "M">>
          /\ recursive_var = FALSE
          /\ fs \in {Many(pattern_var, n) : n \in 0..MaxPreviewFiles}
       \/ InvalidForm /\ fs = Tree({}, {}, TRUE, TRUE)
    /\ Fresh

NextPreview ==
    \/ OnPreview
    \/ Open
    \/ Entry
    \/ Descend
    \/ Exhausted
    \/ PreviewBody

\* Runs of the Preview button with no other process at work
SpecPreview == InitPreview /\ [][NextPreview]_vars

\* Both platforms, over the writable trees without subdirectories
InitRace ==
    /\ platform \in {"posix", "nt"}
    /\ ValidForm
    /\ fs \in TreesUpTo(Effective(pattern_var), MaxFiles, {{}}, {<<TRUE, TRUE>>})
    /\ Fresh

NextRace ==
    \/ OnRename
    \/ Open
    \/ Entry
    \/ LateEntry
    \/ Descend
    \/ Exhausted
    \/ Body
    \/ Rename
    \/ ExternalCreate
    \/ ExternalDelete

\* Runs of the Rename Files button while another process creates and removes files
SpecRace == InitRace /\ [][NextRace]_vars

-----------------------------------------------------------------------------
(* ensure_unique_path on its own: a candidate path and a tree around it *)

MaxSuffix == 3

MaxChain == 10

\* The candidates: directory, stem and extension of the file name
UniqueCands ==
    { [dir |-> B, stem |-> <<"0", "1", "_", "a">>, ext |-> <<".", "j", "p", "g">>],
      [dir |-> B, stem |-> <<"0", "1", "_", "n">>, ext |-> <<>>],
      [dir |-> B, stem |-> <<"0", "1", "_">>, ext |-> <<".", "h">>],
      [dir |-> B, stem |-> <<"0", "1", "_", "x", ".", "t", "a", "r">>, ext |-> <<".", "g", "z">>],
      [dir |-> <<>>, stem |-> <<"a">>, ext |-> <<".", "j", "p", "g">>] }

Numeral(i) ==
    << <<"1">>, <<"2">>, <<"3">>, <<"4">>, <<"5">>, <<"6">>, <<"7">>, <<"8">>, <<"9">>,
       <<"1", "0">>, <<"1", "1">>, <<"1", "2">>, <<"1", "3">>, <<"1", "4">> >>[i]

InDir(t, name) == IF t.dir = <<>> THEN name ELSE t.dir \o <<"/">> \o name

CandPath(t) == InDir(t, t.stem \o t.ext)

\* The i-th path ensure_unique_path is to probe: "<stem>-<i><ext>" beside the candidate
Suffixed(t, i) == InDir(t, t.stem \o <<"-">> \o Numeral(i) \o t.ext)

Slot(t, i) == IF i = 0 THEN CandPath(t) ELSE Suffixed(t, i)

\* A tree with the candidate and its first suffixed names each absent, a file, a
\* directory or a broken link
SlotTrees(t) ==
    {Tree({Ent(Slot(t, i), k[i], 62, 20 + i) : i \in {j \in 0..MaxSuffix : k[j] # "absent"}},
          {}, TRUE, TRUE) :
        k \in [0..MaxSuffix -> {"absent", "file", "dir", "link"}]}

\* A tree where the candidate and its first n suffixed names are all files
ChainTrees(t) ==
    {Tree({Ent(Slot(t, i), "file", 62, 20 + i) : i \in 0..n}, {}, TRUE, TRUE) :
        n \in 0..MaxChain}

InitUnique ==
    /\ \E t \in UniqueCands :
         /\ fs \in SlotTrees(t) \cup ChainTrees(t)
         /\ cur = CandPath(t)
    /\ platform = "posix"
    /\ dir_var = B /\ ext_var = <<"j", "p", "g">> /\ pattern_var = <<>>
    /\ recursive_var = FALSE /\ skip_already_prefixed_var = FALSE
    /\ clock = 185
    /\ mode = "none" /\ pc = "idle"
    /\ conf = [directory |-> <<>>, ext |-> <<>>, pattern |-> <<>>]
    /\ it = NoIter
    /\ target = <<>>
    /\ count = 0 /\ skipped = 0 /\ errors = 0 /\ preview_count = 0
    /\ log = EmptyBag
    /\ run = 0
    /\ fs0 = fs
    /\ moved = [i \in {} |-> 0]
    /\ last = [valid |-> FALSE, count |-> 0, skipped |-> 0, errors |-> 0]
    /\ lost = {}
    /\ noops = 0
    /\ resolved = EmptyBag
    /\ cands = {}
    /\ extern = 0

\* A call ensure_unique_path(cur)
Resolve ==
    /\ pc = "idle" /\ mode = "none"
    /\ target' = ensure_unique_path(fs, cur)
    /\ pc' = "done"
    /\ UNCHANGED <<fs, platform, clock, dir_var, ext_var, pattern_var, recursive_var,
                   skip_already_prefixed_var, mode, conf, it, cur, count, skipped, errors,
                   preview_count, log, run, fs0, moved, last, lost, noops, resolved, cands,
                   extern>>

NextUnique == Resolve

SpecUnique == InitUnique /\ [][NextUnique]_vars

-----------------------------------------------------------------------------
(* The extension filter: the four files of the example and a few odd entries *)

MaxOthers == 1

Quartet ==
    { Ent(PathJoin(B, <<"a", ".", "j", "p", "g">>), "file", 62, 1),
      Ent(PathJoin(B, <<"c", ".", "J", "P", "G">>), "file", 63, 3),
      Ent(PathJoin(B, <<"d", ".", "p", "n", "g">>), "file", 62, 4),
      Ent(PathJoin(B, <<"e", ".", "j", "p", "e", "g">>), "file", 62, 5) }

\* A file named ".jpg", a directory "x.jpg", a broken link "h.jpg", a file
\* "k.jpg.bak", and g.jpg one directory down
Others ==
    { Ent(PathJoin(B, <<".", "j", "p", "g">>), "file", 62, 9),
      Ent(PathJoin(B, <<"x", ".", "j", "p", "g">>), "dir", 62, 10),
      Ent(PathJoin(B, <<"h", ".", "j", "p", "g">>), "link", 62, 11),
      Ent(PathJoin(B, <<"k", ".", "j", "p", "g", ".", "b", "a", "k">>), "file", 62, 12),
      Ent(PathJoin(Sub, <<"g", ".", "j", "p", "g">>), "file", 62, 8) }

FilterTrees ==
    {Tree(Quartet \cup X, IF \E e \in X : e.ino = 8 THEN {Sub} ELSE {}, TRUE, TRUE) :
        X \in {Y \in SUBSET Others : Cardinality(Y) <= MaxOthers}}

InitFilter ==
    /\ ValidForm
    /\ fs \in FilterTrees
    /\ platform = "posix"
    /\ Fresh

\* One run of the Rename Files button over the trees of the filter example
SpecFilter == InitFilter /\ [][Next]_vars

-----------------------------------------------------------------------------
(* The properties *)

Min(a, b) == IF a < b THEN a ELSE b

\* The number of lines of the given kinds in the log
LogCount(kinds) ==
    LET D == {l \in DOMAIN log : l.kind \in kinds}
    IN  IF D = {} THEN 0 ELSE BagCardinality([l \in D |-> log[l]])

\* k lies where the enumeration looks (the base directory, or anywhere below it
\* when recursive) and every directory above it can be listed
InScope(k) ==
    /\ IF recursive_var THEN StartsWith(k, B \o <<"/">>) ELSE PathSplit(k)[1] = B
    /\ \A d \in DOMAIN fs : (fs[d].kind = "dir" /\ StartsWith(k, d \o <<"/">>)) => fs[d].r

\* The matching files of tree F the run can see
Matching(F) ==
    {k \in DOMAIN F : F[k].kind = "file" /\ InScope(k) /\ IsTarget(F, k, conf.ext)}

\* k carries the prefix its modification time gives under the pattern of the run
Prefixed(k) ==
    should_skip_already_prefixed(Basename(k),
                                 get_modification_prefix(fs, k, conf.pattern, clock))

\* The regular files of a tree, by inode, and where one of them is
Inos(F) == {F[k].ino : k \in {q \in DOMAIN F : F[q].kind = "file"}}

PathOf(F, i) == CHOOSE k \in DOMAIN F : F[k].ino = i /\ F[k].kind = "file"

\* ---- C1 ----
\* The candidate record whose path ensure_unique_path was called with
CandOf == CHOOSE t \in UniqueCands : CandPath(t) = cur

\* C1: ensure_unique_path returns the candidate itself when the candidate does
\* not exist; otherwise it returns "<stem>-<i><ext>" in the same directory for the
\* smallest i >= 1 whose path does not exist (all of -1 .. -(i-1) exist); the
\* path returned never exists at the moment it is returned.
C1_EnsureUnique ==
    pc = "done" =>
        /\ ~Exists(fs, target)
        /\ ~Exists(fs, cur) => target = cur
        /\ Exists(fs, cur) =>
              \E i \in 1..(MaxChain + 1) :
                  /\ target = Suffixed(CandOf, i)
                  /\ \A j \in 1..(i - 1) : Exists(fs, Suffixed(CandOf, j))

\* The candidate, "-1" and "-2" exist and "-3" is returned
C1_Witness == pc = "done" /\ Exists(fs, cur) /\ target = Suffixed(CandOf, 3)

\* ---- C2 ----
\* C2: within one run (preview or execute) the resolved target paths computed
\* for distinct files are pairwise distinct: no path is resolved for two files.
C2_DistinctTargets == \A t \in DOMAIN resolved : resolved[t] <= 1

C4_RunCompletes ==
    (mode = "execute" /\ pc \notin {"idle", "rejected"}) =>
        /\ pc # "crashed"
        /\ pc = "done" => LogCount({"Done"}) = 1

\* ---- C5 ----
\* C5: a file another process creates at the resolved target between the
\* existence check and the rename is never replaced by the rename (the inodes
\* from 100 on are those of the files the other process created).
C5_RaceBenign == \A i \in lost : i < 100

\* ---- C6 ----
\* The qualifying candidates of a preview: matching files the skip policy keeps
Qual == {k \in Matching(fs) : ~(skip_already_prefixed_var /\ Prefixed(k))}

\* C6: preview never changes the file system; once the handler is over it has
\* reported exactly min(10, q) entries for q qualifying candidates, and the line
\* "No matching files found." exactly when q = 0.
C6_PreviewReport ==
    mode = "preview" =>
        /\ fs = fs0
        /\ pc \in {"done", "crashed"} =>
              /\ LogCount({"PreviewLine", "PreviewCollision"})
                    = Min(PREVIEW_CAP, Cardinality(Qual))
              /\ LogCount({"NoMatch"}) = 1 <=> Cardinality(Qual) = 0

\* ---- C7 ----
JpgSpellings == {<<".", a, b, c>> : a \in {"j", "J"}, b \in {"p", "P"}, c \in {"g", "G"}}

\* name is something non-empty followed by ".jpg" in any mix of cases
Matches(name) ==
    Len(name) > 4 /\ SubSeq(name, Len(name) - 3, Len(name)) \in JpgSpellings

\* The regular files of a tree named so
Wanted(F) == {k \in DOMAIN F : F[k].kind = "file" /\ Matches(Basename(k))}

InBase(k) == IF recursive_var THEN StartsWith(k, B \o <<"/">>) ELSE PathSplit(k)[1] = B

\* C7: with the filter ".jpg" (however typed) a path becomes a candidate only if
\* it is a regular file whose extension is "jpg" in some mix of cases; when the
\* run is over, the candidates among the files present at its start are exactly
\* those files (a.jpg and c.JPG of the example, never d.png or e.jpeg); and every
\* other entry keeps its name.
C7_Filter ==
    /\ pc = "body" => cur \in Wanted(fs)
    /\ pc = "done" => cands \cap DOMAIN fs0 = {k \in Wanted(fs0) : InBase(k)}
    /\ \A k \in DOMAIN fs0 \ Wanted(fs0) : k \in DOMAIN fs /\ fs[k] = fs0[k]

\* The run is over, a.jpg and c.JPG were candidates and were renamed
C7_Witness ==
    /\ pc = "done" /\ count >= 2
    /\ PathJoin(B, <<"a", ".", "j", "p", "g">>) \in cands
    /\ PathJoin(B, <<"c", ".", "J", "P", "G">>) \in cands
    /\ PathJoin(B, <<"e", ".", "j", "p", "e", "g">>) \in DOMAIN fs

\* ---- C9 ----
\* C9: within one execute run no file is renamed more than once, so the renamed
\* count never exceeds the number of matching files present at the start.
C9_RenamedOnce ==
    /\ \A i \in DOMAIN moved : moved[i] <= 1
    /\ count <= Cardinality({k \in DOMAIN fs0 : IsTarget(fs0, k, conf.ext)})

\* ---- C10 ----
\* C10: in an execute run with no other process at work no file is lost or
\* overwritten: no rename replaces an entry, the regular files stay the same
\* files, each stays in its directory, and one that was not renamed keeps its name.
C10_NothingLost ==
    mode = "execute" =>
        /\ lost = {}
        /\ Inos(fs) = Inos(fs0)
        /\ \A i \in Inos(fs0) \cap Inos(fs) :
              /\ PathSplit(PathOf(fs, i))[1] = PathSplit(PathOf(fs0, i))[1]
              /\ i \notin DOMAIN moved => PathOf(fs, i) = PathOf(fs0, i)

====
